---- MODULE Spec2Model ----
(***************************************************************************)
(* Eigenfaces recognition (src/eigenfaces_mean.py): the module-level       *)
(* construction of the face model and the procedure recognize_face.        *)
(*                                                                         *)
(* Numbers.  Reals are fixed-point integers whose unit is 1/255, so the    *)
(* byte b of an image file stands for the intensity b/255 the code works   *)
(* with.  Sums, products and differences are exact; a norm is rounded down *)
(* to the unit (ISqrt) and a mean is rounded down to the unit (\div).      *)
(*                                                                         *)
(* Arrays.  A numpy array of shape (n,) is a sequence of n numbers, an      *)
(* array of shape (m, n) is a sequence of m rows, each a sequence of n      *)
(* numbers.  The shapes are kept as the code has them, because numpy's     *)
(* broadcasting depends on them.  Python indices are 0-based; sequence     *)
(* indices are 1-based, and the conversion is written where it happens.    *)
(***************************************************************************)
EXTENDS Integers, Sequences, FiniteSets, TLC

VARIABLES
    face_matrix,   \* global: D x N matrix whose columns are the training images
    average_face,  \* global: D x 1 mean image
    data,          \* global: D x N centered training matrix
    u,             \* global: D x min(D,N) left singular vectors of data
    pc,            \* position of the current call of recognize_face
    frame,         \* parameters and local variables of the current call
    printed,       \* lines the current call has printed
    shown          \* image the current call has displayed (<<>>: none)

globals == <<face_matrix, average_face, data, u>>
vars == <<face_matrix, average_face, data, u, pc, frame, printed, shown>>

---------------------------------------------------------------------------
(* Bounds of the model and constants of the program *)

\* largest byte of a query image file
MaxPixel == 2
\* largest eigen_num a call is made with (the basis has 3 columns)
MaxK == 4
\* largest threshold a call is made with
MaxLimit == 1
\* largest subject number a call is made with
MaxSubject == 2

\* the images are scaled down from 112 x 92 pixels to 3 x 1
image_dimensions == <<3, 1>>
image_size == image_dimensions[1] * image_dimensions[2]
imgs_per_subject == 9

---------------------------------------------------------------------------
(* numpy *)

RECURSIVE SumSeq(_)
SumSeq(s) == IF s = <<>> THEN 0 ELSE Head(s) + SumSeq(Tail(s))

Max2(a, b) == IF a >= b THEN a ELSE b
Min2(a, b) == IF a <= b THEN a ELSE b

\* floor of the square root: a norm rounded down to the unit
ISqrt(n) == CHOOSE r \in 0..n : r * r <= n /\ n < (r + 1) * (r + 1)

NumRows(M) == Len(M)
NumCols(M) == IF M = <<>> THEN 0 ELSE Len(M[1])

\* M[:, c] for a 0-based c
Column(M, c) == [r \in 1..NumRows(M) |-> M[r][c + 1]]

\* the number of entries a[:stop] keeps of n
SliceStop(n, stop) == IF stop >= 0 THEN Min2(stop, n) ELSE Max2(n + stop, 0)

\* a plausible slip: the last columns for the first, as for a basis in
\* ascending order of variance
SliceLastCols(M, stop) ==
    [r \in 1..NumRows(M) |->
        SubSeq(M[r], Len(M[r]) - SliceStop(Len(M[r]), stop) + 1, Len(M[r]))]

\* M[:, :stop]
SliceCols(M, stop) ==
    [r \in 1..NumRows(M) |-> SubSeq(M[r], 1, SliceStop(Len(M[r]), stop))]

\* v.reshape((n, 1))
AsColumn(v) == [r \in 1..Len(v) |-> <<v[r]>>]

\* np.mean(M, axis=1)
MeanAxis1(M) == [r \in 1..NumRows(M) |-> SumSeq(M[r]) \div Len(M[r])]

\* A - B for two 2-d arrays, with numpy's broadcasting: an axis of length 1
\* is stretched to the length of the other array's axis
Sub2D(A, B) ==
    LET rows == Max2(NumRows(A), NumRows(B))
        cols == Max2(NumCols(A), NumCols(B))
        At(M, r, c) == M[IF NumRows(M) = 1 THEN 1 ELSE r][IF NumCols(M) = 1 THEN 1 ELSE c]
    IN  [r \in 1..rows |-> [c \in 1..cols |-> At(A, r, c) - At(B, r, c)]]

\* A - v for a 2-d array A and a 1-d array v: broadcasting first makes v the
\* 2-d array of shape (1, len(v))
Sub2D1D(A, v) == Sub2D(A, <<v>>)

\* a - b for two 1-d arrays of the same length
Sub1D(a, b) == [i \in 1..Len(a) |-> a[i] - b[i]]

\* np.dot(v, M) for a 1-d v and a 2-d M: a 1-d array of M's column count
Dot1D2D(v, M) ==
    [c \in 1..NumCols(M) |-> SumSeq([r \in 1..Len(v) |-> v[r] * M[r][c]])]

\* M @ v for a 2-d M and a 1-d v
MatVec(M, v) ==
    [r \in 1..NumRows(M) |-> SumSeq([c \in 1..Len(v) |-> M[r][c] * v[c]])]

\* A @ B for two 2-d arrays
MatMul(A, B) ==
    [r \in 1..NumRows(A) |->
        [c \in 1..NumCols(B) |->
            SumSeq([i \in 1..NumRows(B) |-> A[r][i] * B[i][c]])]]

\* M.T of a 2-d array with at least one row
Transpose(M) ==
    [c \in 1..NumCols(M) |-> [r \in 1..NumRows(M) |-> M[r][c]]]

\* np.linalg.norm of a 1-d array: the Euclidean norm
Norm1D(v) == ISqrt(SumSeq([i \in 1..Len(v) |-> v[i] * v[i]]))

\* np.linalg.norm of a 2-d array: the Frobenius norm
Norm2D(M) ==
    ISqrt(SumSeq([r \in 1..NumRows(M) |->
                     SumSeq([c \in 1..Len(M[r]) |-> M[r][c] * M[r][c]])]))

\* whether v.reshape(rows, cols) is defined; numpy raises ValueError otherwise
CanReshape(v, rows, cols) == Len(v) = rows * cols

\* a plausible slip: the reshape in column-major (Fortran) order
ReshapeColumnMajor(v, rows, cols) ==
    [r \in 1..rows |-> [c \in 1..cols |-> v[(c - 1) * rows + r]]]

\* v.reshape(rows, cols): row-major
Reshape(v, rows, cols) ==
    [r \in 1..rows |-> [c \in 1..cols |-> v[(r - 1) * cols + c]]]

\* v.min() of a non-empty 1-d array
MinOf(v) == CHOOSE m \in {v[i] : i \in 1..Len(v)} : \A i \in 1..Len(v) : m <= v[i]

\* np.argmin(v): the 0-based index of the first occurrence of the minimum
ArgMin(v) ==
    (CHOOSE i \in 1..Len(v) :
        /\ v[i] = MinOf(v)
        /\ \A j \in 1..(i - 1) : v[j] # v[i]) - 1

---------------------------------------------------------------------------
(* The training images and the construction of the model (lines 36-62) *)

Rep(x, n) == [i \in 1..n |-> x]

\* Two subjects with imgs_per_subject selected images each, in the order the
\* loop reads them.  Pixel 3 tells the subjects apart, pixels 1 and 2 vary
\* within a subject.
DatasetGrouped ==
    <<  <<2, 1, 2>>, <<0, 1, 2>>, <<1, 2, 2>>, <<1, 0, 2>> >> \o Rep(<<1, 1, 2>>, 5)
    \o << <<2, 1, 0>>, <<0, 1, 0>> >> \o Rep(<<1, 1, 0>>, 7)

\* One subject directory that holds one selected image more than
\* imgs_per_subject: the number of columns is no multiple of imgs_per_subject.
DatasetUngrouped ==
    <<  <<2, 1, 1>>, <<0, 1, 1>>, <<1, 2, 1>>, <<1, 0, 1>>, <<1, 2, 1>>, <<1, 0, 1>> >>
    \o Rep(<<1, 1, 1>>, 4)

Datasets == {DatasetGrouped, DatasetUngrouped}

\* face_matrix after the loading loop: column c is the c-th selected image
\* (the division by 255 is the choice of the unit)
FaceMatrixOf(files) ==
    [r \in 1..image_size |-> [c \in 1..Len(files) |-> files[c][r]]]

\* np.mean(face_matrix, axis=1).reshape((image_size, 1))
AverageFace(fm) == AsColumn(MeanAxis1(fm))

\* face_matrix - average_face
CenteredData(fm, avg) == Sub2D(fm, avg)

Identity(n) == [r \in 1..n |-> [c \in 1..n |-> IF r = c THEN 1 ELSE 0]]

\* What np.linalg.svd(A, full_matrices=False) guarantees of its first
\* result U: min(D,N) orthonormal columns that span the columns of A and
\* diagonalise A A^T, the singular values in non-increasing order.  The
\* sign of a column, and the order within equal singular values, are the
\* library's choice.
IsLeftSingularBasis(A, U) ==
    LET C == MatMul(Transpose(U), A)
        S == MatMul(C, Transpose(C))
        k == NumCols(U)
    IN  /\ MatMul(Transpose(U), U) = Identity(k)
        /\ MatMul(U, C) = A
        /\ \A i, j \in 1..k : i # j => S[i][j] = 0
        /\ \A i \in 1..(k - 1) : S[i][i] >= S[i + 1][i + 1]

\* The entries an orthonormal column can have in exact integers
UnitEntries == {0 - 1, 0, 1}

\* The values u can take for the centered matrix A
LeftSingularBases(A) ==
    LET k == Min2(NumRows(A), NumCols(A))
    IN  {U \in [1..NumRows(A) -> [1..k -> UnitEntries]] : IsLeftSingularBasis(A, U)}

Init ==
    /\ face_matrix \in {FaceMatrixOf(f) : f \in Datasets}
    /\ average_face = AverageFace(face_matrix)
    /\ data = CenteredData(face_matrix, average_face)
    /\ u \in LeftSingularBases(data)
    /\ pc = "idle"
    /\ frame = <<>>
    /\ printed = <<>>
    /\ shown = <<>>

---------------------------------------------------------------------------
(* recognize_face (lines 66-183) *)

\* the inputs a call is made with
EigenNums == 0..MaxK
Limits == 0..MaxLimit
Subjects == 1..MaxSubject
ImageFiles == [1..image_size -> 0..MaxPixel]

\* lines 106-108: the image file as a centered D x 1 array
UnknownFace(file, avg) == Sub2D(AsColumn(file), avg)

\* lines 114-118: the coefficients of the unknown face, one per eigenface
UnknownFaceCoeff(eigenfaces, unknown_face) ==
    [i \in 1..NumCols(eigenfaces) |->
        Dot1D2D(Column(eigenfaces, i - 1), unknown_face)[1]]

\* line 122
Projection(eigenfaces, unknown_face_coeff) == MatVec(eigenfaces, unknown_face_coeff)

\* line 124: unknown_face has shape (D, 1) and projection has shape (D,), so
\* the difference is the broadcast D x D array and its norm the Frobenius norm
ProjectionError(unknown_face, projection) ==
    Norm2D(Sub2D1D(unknown_face, projection))

\* a plausible slip: >= for >
IsNotAFaceInclusive(projection_error, proj_err_limit) ==
    projection_error >= proj_err_limit

\* line 129
IsNotAFace(projection_error, proj_err_limit) == projection_error > proj_err_limit

\* line 135
KnownFacesCoeff(eigenfaces, centered) == MatMul(Transpose(eigenfaces), centered)

\* lines 141-145
Difference(known_faces_coeff, unknown_face_coeff, centered) ==
    [i \in 1..NumCols(centered) |->
        Norm1D(Sub1D(Column(known_faces_coeff, i - 1), unknown_face_coeff))]

\* line 148
NumGroups(difference) == Len(difference) \div imgs_per_subject

\* line 152: difference.mean(axis=1)
DifferenceMean(difference) == MeanAxis1(difference)

\* a plausible slip: >= for >
IsUnknownFaceInclusive(face_error, coeff_err_limit) == face_error >= coeff_err_limit

\* line 158
IsUnknownFace(face_error, coeff_err_limit) == face_error > coeff_err_limit

\* lines 99-108.  subj_img names the file to open: its first entry is kept
\* as subject, and the bytes of the file it names are the argument file.
Call(eigen_num, subject, file, proj_err_limit, coeff_err_limit) ==
    /\ pc = "idle"
    /\ frame' = [eigen_num |-> eigen_num,
                 proj_err_limit |-> proj_err_limit,
                 coeff_err_limit |-> coeff_err_limit,
                 eigenfaces |-> SliceCols(u, eigen_num),
                 subject |-> subject,
                 unknown_face |-> UnknownFace(file, average_face)]
    /\ printed' = <<>>
    /\ shown' = <<>>
    /\ pc' = "Init"
    /\ UNCHANGED globals

\* lines 114-124
Project ==
    /\ pc = "Init"
    /\ LET coeff == UnknownFaceCoeff(frame.eigenfaces, frame.unknown_face)
           proj == Projection(frame.eigenfaces, coeff)
       IN  frame' = frame @@ [unknown_face_coeff |-> coeff,
                              projection |-> proj,
                              projection_error |->
                                  ProjectionError(frame.unknown_face, proj)]
    /\ pc' = "FaceSpaceChecked"
    /\ UNCHANGED globals
    /\ UNCHANGED <<printed, shown>>

\* lines 129-131
NotAFace ==
    /\ pc = "FaceSpaceChecked"
    /\ IsNotAFace(frame.projection_error, frame.proj_err_limit)
    /\ printed' = << <<"Projection error:", frame.projection_error>>,
                     <<"Not a face.">> >>
    /\ pc' = "NotAFace"
    /\ UNCHANGED globals
    /\ UNCHANGED <<frame, shown>>

\* lines 132-155, the reshape of line 149 succeeding
Classify ==
    /\ pc = "FaceSpaceChecked"
    /\ ~IsNotAFace(frame.projection_error, frame.proj_err_limit)
    /\ LET known == KnownFacesCoeff(frame.eigenfaces, data)
           diff == Difference(known, frame.unknown_face_coeff, data)
           groups == NumGroups(diff)
           grouped == Reshape(diff, groups, imgs_per_subject)
           means == DifferenceMean(grouped)
       IN  /\ CanReshape(diff, groups, imgs_per_subject)
           /\ frame' = frame @@ [known_faces_coeff |-> known,
                                 difference |-> grouped,
                                 num_groups |-> groups,
                                 difference_mean |-> means,
                                 face_error |-> MinOf(means)]
    /\ pc' = "Classified"
    /\ UNCHANGED globals
    /\ UNCHANGED <<printed, shown>>

\* lines 132-149, the reshape of line 149 raising ValueError
ClassifyError ==
    /\ pc = "FaceSpaceChecked"
    /\ ~IsNotAFace(frame.projection_error, frame.proj_err_limit)
    /\ LET known == KnownFacesCoeff(frame.eigenfaces, data)
           diff == Difference(known, frame.unknown_face_coeff, data)
           groups == NumGroups(diff)
       IN  /\ ~CanReshape(diff, groups, imgs_per_subject)
           /\ frame' = frame @@ [known_faces_coeff |-> known,
                                 difference |-> diff,
                                 num_groups |-> groups]
    /\ pc' = "ValueError"
    /\ UNCHANGED globals
    /\ UNCHANGED <<printed, shown>>

\* lines 158-161
UnknownFaceOutcome ==
    /\ pc = "Classified"
    /\ IsUnknownFace(frame.face_error, frame.coeff_err_limit)
    /\ printed' = << <<"Projection error:", frame.projection_error>>,
                     <<"Distance from matched person:", frame.face_error>>,
                     <<"Unknown face.">> >>
    /\ pc' = "UnknownFace"
    /\ UNCHANGED globals
    /\ UNCHANGED <<frame, shown>>

\* lines 162-183, but for the globals
MatchBody ==
    /\ pc = "Classified"
    /\ ~IsUnknownFace(frame.face_error, frame.coeff_err_limit)
    /\ LET match == ArgMin(frame.difference_mean)
       IN  /\ printed' = << <<"Projection error:", frame.projection_error>>,
                            <<"Distance from matched person:", frame.face_error>>,
                            <<"There's a match!">>,
                            IF match + 1 = frame.subject
                            THEN <<"Got it right.">> ELSE <<"Got it wrong.">>,
                            <<"Match:", match + 1>>,
                            <<"subject:", frame.subject>>,
                            <<match + 1 = frame.subject>> >>
           /\ frame' = frame @@ [match |-> match * imgs_per_subject]
           /\ shown' = Reshape(Column(face_matrix, match * imgs_per_subject),
                               image_dimensions[1], image_dimensions[2])
    /\ pc' = "Match"

\* a plausible slip: the displayed face is a view of face_matrix and is
\* rescaled in place before it is shown
MatchRescalesInPlace ==
    /\ MatchBody
    /\ face_matrix' = [r \in 1..NumRows(face_matrix) |->
                          [face_matrix[r] EXCEPT ![frame'.match + 1] = 255 * @]]
    /\ UNCHANGED <<average_face, data, u>>

\* lines 162-183
Match ==
    /\ MatchBody
    /\ UNCHANGED globals

\* a plausible slip: a finished call is run again instead of returning
ReturnRetries ==
    /\ pc \in {"NotAFace", "UnknownFace", "Match", "ValueError"}
    /\ pc' = "Init"
    /\ UNCHANGED globals
    /\ UNCHANGED <<frame, printed, shown>>

\* the call ends: by falling off the end of the function, or by the
\* ValueError leaving it
Return ==
    /\ pc \in {"NotAFace", "UnknownFace", "Match", "ValueError"}
    /\ pc' = "idle"
    /\ frame' = <<>>
    /\ printed' = <<>>
    /\ shown' = <<>>
    /\ UNCHANGED globals

\* a call of recognize_face with any arguments, once the module has loaded
\* and no call is running
Recognize ==
    /\ pc = "idle"
    /\ \E k \in EigenNums, s \in Subjects, f \in ImageFiles,
          t1 \in Limits, t2 \in Limits : Call(k, s, f, t1, t2)

Next ==
    \/ Recognize
    \/ Project
    \/ NotAFace
    \/ Classify
    \/ ClassifyError
    \/ UnknownFaceOutcome
    \/ Match
    \/ Return

Spec == Init /\ [][Next]_vars

---------------------------------------------------------------------------
(* Properties *)

\* N, the number of training images, and the number of columns of the basis
NumImages == NumCols(data)
Rank == NumCols(u)
Grouped == NumImages % imgs_per_subject = 0

Has(name) == name \in DOMAIN frame
Outcomes == {"NotAFace", "UnknownFace", "Match"}
Stage2 == {"Classified", "UnknownFace", "Match"}

\* the Euclidean distance, in coefficients, of the unknown face from the
\* training image of 0-based column i
CoeffDistance(i) ==
    ISqrt(SumSeq([c \in 1..Len(frame.unknown_face_coeff) |->
        (frame.known_faces_coeff[c][i + 1] - frame.unknown_face_coeff[c])
        * (frame.known_faces_coeff[c][i + 1] - frame.unknown_face_coeff[c])]))

\* the mean distance of the 0-based block j of imgs_per_subject images
BlockMean(j) ==
    SumSeq([c \in 1..imgs_per_subject |->
               CoeffDistance(j * imgs_per_subject + c - 1)]) \div imgs_per_subject

\* the lowest 0-based block whose mean distance is face_error
BestMatch ==
    CHOOSE j \in 0..(frame.num_groups - 1) :
        /\ BlockMean(j) = frame.face_error
        /\ \A i \in 0..(j - 1) : BlockMean(i) # frame.face_error

\* C1: a call ends as NotAFace exactly when projection_error is strictly
\* greater than proj_err_limit; an error equal to the limit goes on to the
\* identity stage; a NotAFace call prints the projection error only and has
\* computed no face_error and no match.
C1_NotAFaceIffAboveLimit ==
    /\ pc = "NotAFace" =>
          /\ frame.projection_error > frame.proj_err_limit
          /\ ~Has("known_faces_coeff") /\ ~Has("face_error") /\ ~Has("match")
          /\ printed = << <<"Projection error:", frame.projection_error>>,
                          <<"Not a face.">> >>
          /\ shown = <<>>
    /\ pc \in Stage2 \cup {"ValueError"} =>
          frame.projection_error <= frame.proj_err_limit

C1_Witness ==
    /\ pc \in Stage2
    /\ frame.projection_error = frame.proj_err_limit
    /\ frame.proj_err_limit > 0

\* C2: a call that reached the identity stage ends as UnknownFace exactly
\* when face_error is strictly greater than coeff_err_limit, and then reports
\* no subject; otherwise (the two equal included) it ends as Match and the
\* subject it reports and displays is the one of the block np.argmin chose,
\* a block whose mean distance is face_error.
C2_UnknownFaceIffAboveLimit ==
    /\ pc = "UnknownFace" =>
          /\ frame.face_error > frame.coeff_err_limit
          /\ ~Has("match")
          /\ printed = << <<"Projection error:", frame.projection_error>>,
                          <<"Distance from matched person:", frame.face_error>>,
                          <<"Unknown face.">> >>
          /\ shown = <<>>
    /\ pc = "Match" =>
          /\ frame.face_error <= frame.coeff_err_limit
          /\ \E b \in 0..(frame.num_groups - 1) :
                /\ frame.difference_mean[b + 1] = frame.face_error
                /\ printed[5] = <<"Match:", b + 1>>
                /\ frame.match = b * imgs_per_subject
                /\ shown = [r \in 1..image_size |->
                               <<face_matrix[r][b * imgs_per_subject + 1]>>]

C2_Witness ==
    /\ pc = "Match"
    /\ frame.face_error = frame.coeff_err_limit
    /\ frame.face_error > 0
    /\ frame.match = imgs_per_subject

\* C3: in the identity stage the N distances are cut into contiguous blocks
\* of imgs_per_subject in corpus order; face_error is the least block mean
\* and the match is the lowest block that has it.
C3_GroupedMeanAndFirstMinimum ==
    pc \in Stage2 =>
        /\ frame.num_groups * imgs_per_subject = NumImages
        /\ \A j \in 0..(frame.num_groups - 1) :
              /\ \A c \in 0..(imgs_per_subject - 1) :
                    frame.difference[j + 1][c + 1]
                        = CoeffDistance(j * imgs_per_subject + c)
              /\ frame.difference_mean[j + 1] = BlockMean(j)
              /\ frame.face_error <= BlockMean(j)
        /\ \E j \in 0..(frame.num_groups - 1) : frame.face_error = BlockMean(j)
        /\ pc = "Match" =>
              /\ frame.match = BestMatch * imgs_per_subject
              /\ printed[5] = <<"Match:", BestMatch + 1>>

\* two blocks tie at a positive mean distance and the first one is matched
C3_Witness ==
    /\ pc = "Match"
    /\ frame.eigen_num >= 1
    /\ frame.num_groups = 2
    /\ BlockMean(0) = BlockMean(1)
    /\ BlockMean(0) > 0
    /\ frame.match = 0

\* C4: projection_error is the Euclidean norm of the D-dimensional
\* difference between the centered image and its reconstruction from its
\* coefficients, for every image and every eigen_num in 1..rank.
C4_ResidualIsEuclideanDistance ==
    (Grouped /\ Has("projection_error") /\ frame.eigen_num \in 1..Rank) =>
        frame.projection_error =
            ISqrt(SumSeq([i \in 1..image_size |->
                (frame.unknown_face[i][1] - frame.projection[i])
                * (frame.unknown_face[i][1] - frame.projection[i])]))

\* C5: a call with eigen_num outside 1..rank fails at projection time: it
\* produces no recognition outcome (its eigen_num is not cut down to the
\* columns there are and the call carried on).
C5_InvalidKProducesNoOutcome ==
    (Grouped /\ pc \in Outcomes) => frame.eigen_num \in 1..Rank

\* C6: against a corpus whose size is no multiple of imgs_per_subject no
\* call completes and none fails in the grouping of the identity stage.
C6_UngroupedCorpusNeverQueried ==
    ~Grouped => pc \notin Outcomes \cup {"ValueError"}

\* C7: no step of any call changes face_matrix, average_face, data or u.
C7_ModelUnchanged == [][UNCHANGED globals]_vars

C7_Witness ==
    /\ pc = "Match"
    /\ shown # <<>>
    /\ data = CenteredData(face_matrix, average_face)

\* C8: a call on a well-grouped corpus goes idle, Init, FaceSpaceChecked,
\* then NotAFace or Classified, then from Classified UnknownFace or Match,
\* and from an outcome only back to idle; it never goes back, never starts
\* over and never leaves by the ValueError of the reshape.
C8_Transitions ==
    Grouped =>
        <<pc, pc'>> \in
            {<<"idle", "Init">>,
             <<"Init", "FaceSpaceChecked">>,
             <<"FaceSpaceChecked", "NotAFace">>,
             <<"FaceSpaceChecked", "Classified">>,
             <<"Classified", "UnknownFace">>,
             <<"Classified", "Match">>,
             <<"NotAFace", "idle">>,
             <<"UnknownFace", "idle">>,
             <<"Match", "idle">>}

C8_SequentialStates == [][C8_Transitions]_vars

C8_Witness ==
    /\ Grouped
    /\ pc = "NotAFace"
    /\ ~Has("difference")

\* C9: the coefficients of the known faces a call uses are those of the
\* centered corpus on the first eigen_num columns of u (all of them when
\* eigen_num is larger), for the eigen_num of this call.
C9_KnownCoeffsOfThisK ==
    Has("known_faces_coeff") =>
        /\ NumRows(frame.known_faces_coeff) = Min2(frame.eigen_num, Rank)
        /\ \A c \in 1..NumRows(frame.known_faces_coeff) :
              /\ Len(frame.known_faces_coeff[c]) = NumImages
              /\ \A i \in 1..NumImages :
                    frame.known_faces_coeff[c][i]
                        = SumSeq([p \in 1..image_size |-> u[p][c] * data[p][i]])

C9_Witness ==
    /\ pc = "Classified"
    /\ frame.eigen_num = 2
    /\ NumRows(frame.known_faces_coeff) = 2

\* C10: for one image and k1 < k2 <= rank, the projection_error with k2
\* eigenfaces is no greater than with k1.
C10_ResidualNonIncreasing ==
    (Grouped /\ pc = "FaceSpaceChecked" /\ frame.eigen_num <= Rank) =>
        \A k1 \in 1..(frame.eigen_num - 1) :
            frame.projection_error <=
                ProjectionError(frame.unknown_face,
                    Projection(SliceCols(u, k1),
                        UnknownFaceCoeff(SliceCols(u, k1), frame.unknown_face)))

====
